---- MODULE Spec2Model ----
(***************************************************************************)
(* Model of the vehicle dynamics core (src/src/lib.rs): the Car entity,    *)
(* its setters, refuel() and the per-tick update() pipeline                *)
(*     update_rpm -> update_braking -> update_speed -> update_fuel.        *)
(*                                                                         *)
(* Numbers.  The code computes in f64.  The model computes in fixed point  *)
(* and rounds every product/quotient towards zero at the resolution of the *)
(* quantity (f64 rounds too, only finer):                                  *)
(*   pedal positions, braking fractions, alphas : 1/PosScale               *)
(*   engine revolutions before truncation        : 1/RpmScale rpm          *)
(*   speed                                       : 1/SpeedScale km/h       *)
(*   fuel level                                  : 1/FuelScale of a tank   *)
(* The IEEE special values the code can produce (a division by the Neutral *)
(* ratio 0.0 gives +inf or NaN) are modelled explicitly, see Quotient.     *)
(* A panic (index out of range, unwrap of None) is the field `panicked`.   *)
(***************************************************************************)
EXTENDS Integers, Sequences, FiniteSets, TLC

\* ------------------------------------------------------------ resolutions
PosScale   == 64 * 100          \* 1.0 as a pedal position / braking fraction
RpmScale   == 64                \* 1 rpm of the untruncated f64 rpm
SpeedScale == 10 * 100          \* 1 km/h
FuelScale  == 10000 * 10000     \* a full tank (fuel_level 1.0)

\* Division rounding towards zero (b > 0).
Div(a, b) == IF a >= 0 THEN a \div b ELSE -((-a) \div b)

\* f64 `%` (fmod): the remainder has the sign of the dividend (b > 0).
Rem(a, b) == IF a >= 0 THEN a % b ELSE -((-a) % b)

Max(a, b) == IF a >= b THEN a ELSE b
Min(a, b) == IF a <= b THEN a ELSE b

\* ------------------------------------------------------- program constants
BASE_RPM == 750
MAX_RPM == 5000
\* SPEED_FACTOR = 2*PI*0.4*0.006 km/h per rpm.  In model units (1/SpeedScale
\* km/h per 1/RpmScale rpm) that is 3*PI/40, taken with PI = 355/113.
SPEED_FACTOR_NUM == 213
SPEED_FACTOR_DEN == 904
SPEED_ALPHA == PosScale \div 2
BRAKING_ALPHA == PosScale \div 2
MAX_POWER == 100
MAX_TORQUE == 200
BSFC == 180

Gear == {"Neutral", "First", "Second", "Third", "Fourth", "Fifth", "Reverse"}
HandBrake == {"Disengaged", "Half", "Full"}

\* Option<f64>: <<>> is None, <<x>> is Some(x).
effect(hand_brake) ==
    CASE hand_brake = "Disengaged" -> <<>>
      [] hand_brake = "Half"       -> <<(3 * PosScale) \div 4>>
      [] hand_brake = "Full"       -> <<PosScale>>

\* ------------------------------------------------------------------ bounds
MaxTicks == 1
MaxRefuels == 1
MaxDriveTicks == 2
MaxBrakingTicks == 5
MaxScenarioTicks == 5
MaxSpeedTicks == 3

\* Inputs the driver passes to the setters (all inside the documented [0,1]):
\* 0, 1/16 (below the 0.1 braking threshold, gives a fractional rpm) and 1.
Positions == {0, PosScale \div 16, PosScale}
\* Car::new(fuel_level): empty, nearly empty (1e-6), full.
InitialFuel == {0, 100, FuelScale}
\* refuel(amount): the driver's 0.001, and the 1.2 of the wraparound example.
RefuelAmounts == {FuelScale \div 1000, 12 * (FuelScale \div 10)}
\* set_clutch_position: engaged (<= 0.5) and disengaged.
ClutchEnds == {0, PosScale}
\* shift_gear: the gears with the zero, the lowest, the highest and the
\* negative ratio; the longer drives do without Fifth.
ShiftGears == {"Neutral", "First", "Fifth", "Reverse"}
DriveGears == {"Neutral", "First", "Reverse"}
BrakePositions == Positions \cup {PosScale \div 2}
\* The drive at the ends of the speed range: top gear and reverse, the
\* pedals released or to the floor, the handbrake off or full on.
SpeedGears == {"Fifth", "Reverse"}
PedalEnds == {0, PosScale}
HandBrakeEnds == {"Disengaged", "Full"}

VARIABLES car, ticks, refuels, last_call, full_ticks, held

vars == <<car, ticks, refuels, last_call, full_ticks, held>>

\* ------------------------------------------------------------ Vec helpers
reverse(v) == [i \in 1..Len(v) |-> v[Len(v) + 1 - i]]

resize_with(v, n, fill) ==
    [i \in 1..n |-> IF i <= Len(v) THEN v[i] ELSE fill]

last(v) == v[Len(v)]

\* ------------------------------------------------- exponential_moving_average
RECURSIVE ema_fold(_, _, _, _)
ema_fold(values, alpha, last_value, ema) ==
    IF values = <<>> THEN ema
    ELSE LET next_value ==
                 Div(alpha * Head(values) + (PosScale - alpha) * last_value, PosScale)
         IN  ema_fold(Tail(values), alpha, next_value, Append(ema, next_value))

\* Defined on a non-empty slice; on an empty one the code's unwrap() panics
\* (callers test that with `v = <<>>` before using this).
exponential_moving_average(instantaneous_values, alpha) ==
    ema_fold(Tail(instantaneous_values), alpha, Head(instantaneous_values),
             <<Head(instantaneous_values)>>)

\* ---------------------------------------------------------------- Car::new
new(fuel_level) ==
    [ instantaneous_speeds  |-> <<>>,
      instantaneous_braking |-> <<>>,
      effective_braking     |-> 0,
      speed                 |-> 0,
      engine_rpm            |-> 0,
      transmission_rpm      |-> 0,
      gear                  |-> "Neutral",
      accelerator_position  |-> 0,
      brake_position        |-> 0,
      clutch_position       |-> 0,
      hand_brake            |-> "Full",
      fuel_level            |-> fuel_level,
      ignition              |-> FALSE,
      panicked              |-> FALSE ]

panic(c) == [c EXCEPT !.panicked = TRUE]

\* ----------------------------------------------------------------- setters
shift_gear(c, gear) == [c EXCEPT !.gear = gear]

\* Variant: the accelerator setter forgets to release the brake.
set_accelerator_position_keeps_brake(c, position) ==
    [c EXCEPT !.accelerator_position = position]

set_accelerator_position(c, position) ==
    [c EXCEPT !.accelerator_position = position, !.brake_position = 0]

set_clutch_position(c, position) == [c EXCEPT !.clutch_position = position]

set_brake_position(c, position) ==
    [c EXCEPT !.brake_position = position, !.accelerator_position = 0]

set_handbrake_position(c, position) == [c EXCEPT !.hand_brake = position]

turn_key(c, ignition) == [c EXCEPT !.ignition = ignition]

\* -------------------------------------------------------------- braking
\* Variant: the window is resized and smoothed without the two reversals.
smooth_braking_without_reverse(instantaneous_braking) ==
    exponential_moving_average(resize_with(instantaneous_braking, 2, 0), BRAKING_ALPHA)

\* The window after the call; the code returns its element [0].
smooth_braking(instantaneous_braking) ==
    LET reversed == reverse(instantaneous_braking)
        resized  == resize_with(reversed, 2, 0)
    IN  reverse(exponential_moving_average(resized, BRAKING_ALPHA))

\* Variant: the handbrake adds to the pedal.
merged_braking_added(c) ==
    LET e == effect(c.hand_brake)
    IN  IF e # <<>> THEN e[1] + c.brake_position ELSE c.brake_position

\* max(brake_position, handbrake effect): the handbrake is a floor.
merged_braking(c) ==
    LET e == effect(c.hand_brake)
    IN  IF e # <<>> THEN Max(e[1], c.brake_position) ELSE c.brake_position

\* Variant: the smoothing weighs the sample against the previous smoothed
\* value, not against the previous sample.
update_braking_seeded_by_output(c) ==
    IF c.panicked THEN c
    ELSE
    LET braking == merged_braking(c)
    IN  IF braking > 0
        THEN LET w == <<Div(BRAKING_ALPHA * braking
                              + (PosScale - BRAKING_ALPHA) * c.effective_braking,
                            PosScale), braking>>
             IN  [c EXCEPT !.instantaneous_braking = w, !.effective_braking = w[1]]
        ELSE [c EXCEPT !.instantaneous_braking = <<0>>, !.effective_braking = 0]

\* Variant: a merged braking of zero is smoothed like any other value.
update_braking_without_reset(c) ==
    IF c.panicked THEN c
    ELSE
    LET braking == merged_braking(c)
        pushed  == IF 10 * braking > PosScale
                   THEN Append(c.instantaneous_braking, braking)
                   ELSE c.instantaneous_braking
        w == smooth_braking(pushed)
    IN  [c EXCEPT !.instantaneous_braking = w, !.effective_braking = w[1]]

update_braking(c) ==
    IF c.panicked THEN c
    ELSE
    LET braking == merged_braking(c)
        pushed  == IF 10 * braking > PosScale
                   THEN Append(c.instantaneous_braking, braking)
                   ELSE c.instantaneous_braking
    IN  IF braking > 0
        THEN LET w == smooth_braking(pushed)
             IN  [c EXCEPT !.instantaneous_braking = w, !.effective_braking = w[1]]
        ELSE [c EXCEPT !.instantaneous_braking = <<0>>, !.effective_braking = 0]

\* ------------------------------------------------------------------- rpm
RatioScale == 10 * 10

transmission_ratio(c) ==
    CASE c.gear = "Reverse" -> -10
      [] c.gear = "Neutral" -> 0
      [] c.gear = "First"   -> 30
      [] c.gear = "Second"  -> 50
      [] c.gear = "Third"   -> 80
      [] c.gear = "Fourth"  -> 100
      [] c.gear = "Fifth"   -> 140

\* `rpm as u32`: truncates towards zero and saturates at 0 (the upper
\* saturation at 2^32-1 is out of reach for accelerator positions in [0,1]).
as_u32(rpm) == Max(0, Div(rpm, RpmScale))

\* Variant: the engine turns whenever there is fuel, key or no key.
update_rpm_ignoring_ignition(c) ==
    LET rpm == IF c.fuel_level > 0
               THEN BASE_RPM * RpmScale
                    + Div((MAX_RPM - BASE_RPM) * RpmScale * c.accelerator_position, PosScale)
               ELSE 0
    IN  [c EXCEPT !.engine_rpm = as_u32(rpm),
                  !.transmission_rpm =
                      IF 2 * c.clutch_position <= PosScale
                      THEN Div(rpm * transmission_ratio(c), RatioScale)
                      ELSE 0]

\* Variant: the accelerator spans the whole of MAX_RPM above the idle speed.
update_rpm_full_range(c) ==
    IF c.panicked THEN c
    ELSE
    LET rpm == IF c.fuel_level > 0 /\ c.ignition
               THEN BASE_RPM * RpmScale
                    + Div(MAX_RPM * RpmScale * c.accelerator_position, PosScale)
               ELSE 0
    IN  [c EXCEPT !.engine_rpm = as_u32(rpm),
                  !.transmission_rpm =
                      IF 2 * c.clutch_position <= PosScale
                      THEN Div(rpm * transmission_ratio(c), RatioScale)
                      ELSE 0]

update_rpm(c) ==
    IF c.panicked THEN c
    ELSE
    LET rpm == IF c.fuel_level > 0 /\ c.ignition
               THEN BASE_RPM * RpmScale
                    + Div((MAX_RPM - BASE_RPM) * RpmScale * c.accelerator_position, PosScale)
               ELSE 0
    IN  [c EXCEPT !.engine_rpm = as_u32(rpm),
                  !.transmission_rpm =
                      IF 2 * c.clutch_position <= PosScale
                      THEN Div(rpm * transmission_ratio(c), RatioScale)
                      ELSE 0]

\* ----------------------------------------------------------------- speed
\* Variant: the window is not cut back to two values.
smooth_speed_without_resize(c) ==
    IF c.instantaneous_speeds = <<>> THEN panic(c)
    ELSE
    LET speeds == exponential_moving_average(c.instantaneous_speeds, SPEED_ALPHA)
        speed  == last(speeds)
        window == [reverse(c.instantaneous_speeds) EXCEPT ![1] = speed]
    IN  [c EXCEPT !.instantaneous_speeds = window, !.speed = speed]

\* Called with the new sample already pushed.
smooth_speed(c) ==
    IF c.instantaneous_speeds = <<>> THEN panic(c)      \* instantaneous_speeds[0]
    ELSE
    LET initial_speed == c.instantaneous_speeds[1]
        speeds  == exponential_moving_average(c.instantaneous_speeds, SPEED_ALPHA)
        speed   == last(speeds)
        resized == resize_with(c.instantaneous_speeds, 2, initial_speed)
        window  == [reverse(resized) EXCEPT ![1] = speed]
    IN  [c EXCEPT !.instantaneous_speeds = window, !.speed = speed]

\* Variant: the powered branch smooths without pushing its sample first.
update_speed_without_push(c) ==
    IF c.panicked THEN c
    ELSE IF 2 * c.clutch_position > PosScale \/ ~c.ignition
    THEN [c EXCEPT !.speed =
             Div(c.speed * ((97 * PosScale) \div 100 - c.effective_braking), PosScale)]
    ELSE IF c.accelerator_position = 0
            /\ (c.speed < 3 * SpeedScale \/ 4 * c.effective_braking > 3 * PosScale)
    THEN [c EXCEPT !.speed = 0]
    ELSE smooth_speed(c)

\* Variant: no clean-stop branch, the speed is always smoothed towards the sample.
update_speed_without_clean_stop(c) ==
    IF c.panicked THEN c
    ELSE IF 2 * c.clutch_position > PosScale \/ ~c.ignition
    THEN [c EXCEPT !.speed =
             Div(c.speed * ((97 * PosScale) \div 100 - c.effective_braking), PosScale)]
    ELSE LET speed == Div(Div(c.transmission_rpm * SPEED_FACTOR_NUM, SPEED_FACTOR_DEN)
                            * (PosScale - c.effective_braking), PosScale)
         IN  smooth_speed([c EXCEPT !.instantaneous_speeds = Append(@, speed)])

\* Variant: braking adds to the sample where it should take away.
update_speed_braking_added(c) ==
    IF c.panicked THEN c
    ELSE IF 2 * c.clutch_position > PosScale \/ ~c.ignition
    THEN [c EXCEPT !.speed =
             Div(c.speed * ((97 * PosScale) \div 100 - c.effective_braking), PosScale)]
    ELSE IF c.accelerator_position = 0
            /\ (c.speed < 3 * SpeedScale \/ 4 * c.effective_braking > 3 * PosScale)
    THEN [c EXCEPT !.speed = 0]
    ELSE LET speed == Div(Div(c.transmission_rpm * SPEED_FACTOR_NUM, SPEED_FACTOR_DEN)
                            * (PosScale + c.effective_braking), PosScale)
         IN  smooth_speed([c EXCEPT !.instantaneous_speeds = Append(@, speed)])

\* Variant: the sample is scaled by effective_braking, not by what it leaves.
update_speed_braking_inverted(c) ==
    IF c.panicked THEN c
    ELSE IF 2 * c.clutch_position > PosScale \/ ~c.ignition
    THEN [c EXCEPT !.speed =
             Div(c.speed * ((97 * PosScale) \div 100 - c.effective_braking), PosScale)]
    ELSE IF c.accelerator_position = 0
            /\ (c.speed < 3 * SpeedScale \/ 4 * c.effective_braking > 3 * PosScale)
    THEN [c EXCEPT !.speed = 0]
    ELSE LET speed == Div(Div(c.transmission_rpm * SPEED_FACTOR_NUM, SPEED_FACTOR_DEN)
                            * c.effective_braking, PosScale)
         IN  smooth_speed([c EXCEPT !.instantaneous_speeds = Append(@, speed)])

update_speed(c) ==
    IF c.panicked THEN c
    ELSE IF 2 * c.clutch_position > PosScale \/ ~c.ignition
    THEN [c EXCEPT !.speed =
             Div(c.speed * ((97 * PosScale) \div 100 - c.effective_braking), PosScale)]
    ELSE IF c.accelerator_position = 0
            /\ (c.speed < 3 * SpeedScale \/ 4 * c.effective_braking > 3 * PosScale)
    THEN [c EXCEPT !.speed = 0]
    ELSE LET speed == Div(Div(c.transmission_rpm * SPEED_FACTOR_NUM, SPEED_FACTOR_DEN)
                            * (PosScale - c.effective_braking), PosScale)
         IN  smooth_speed([c EXCEPT !.instantaneous_speeds = Append(@, speed)])

\* ------------------------------------------------------------------ fuel
\* IEEE-754 values the fuel arithmetic can take: a finite number (in units of
\* 1/FuelScale of a tank), +inf, -inf, NaN.
Finite(v) == [k |-> "finite", v |-> v]
PosInf == [k |-> "+inf", v |-> 0]
NegInf == [k |-> "-inf", v |-> 0]
NaN == [k |-> "NaN", v |-> 0]

\* num / den in f64, rounded towards zero when finite: x/0.0 is +inf or -inf
\* by the sign of x, and 0.0/0.0 is NaN.
Quotient(num, den) ==
    IF den = 0 THEN (IF num = 0 THEN NaN ELSE IF num > 0 THEN PosInf ELSE NegInf)
    ELSE IF den > 0 THEN Finite(Div(num, den))
    ELSE Finite(-Div(num, -den))

\* fuel_consumption * 10^-10, in units of 1/FuelScale of a tank.
\* power_output is in 1/1000 kW: engine_rpm * MAX_TORQUE * 2*PI / 60 with PI = 355/113.
fuel_consumption(c) ==
    LET power_output == Div(c.engine_rpm * MAX_TORQUE * 710, 60 * 113)
        capped == Min(power_output, MAX_POWER * 1000)
    IN  Quotient(capped * 5 * BSFC, (100000 \div RatioScale) * transmission_ratio(c))

\* fuel_level - x for a finite fuel_level.
subtract(fuel_level, x) ==
    CASE x.k = "finite" -> Finite(fuel_level - x.v)
      [] x.k = "+inf"   -> NegInf
      [] x.k = "-inf"   -> PosInf
      [] x.k = "NaN"    -> NaN

\* Variant: the level is not clamped at zero.
max_zero_unclamped(x) == x

\* f64::max(x, 0.0): NaN.max(0.0) is 0.0, the non-NaN argument.
max_zero(x) ==
    CASE x.k = "finite" -> Finite(Max(x.v, 0))
      [] x.k = "+inf"   -> PosInf
      [] x.k = "-inf"   -> Finite(0)
      [] x.k = "NaN"    -> Finite(0)

update_fuel(c) ==
    IF c.panicked THEN c
    ELSE LET level == max_zero(subtract(c.fuel_level, fuel_consumption(c)))
         IN  IF level.k = "finite" THEN [c EXCEPT !.fuel_level = level.v]
             ELSE panic(c)      \* fuel_level = +inf: out of the model's range, unreachable

\* Variant: a full tank caps the level instead of wrapping it.
refuel_clamped(c, fuel_level) ==
    [c EXCEPT !.fuel_level = Min(c.fuel_level + fuel_level, FuelScale)]

refuel(c, fuel_level) ==
    [c EXCEPT !.fuel_level = Rem(c.fuel_level + fuel_level, FuelScale)]

update(c) == update_fuel(update_speed(update_braking(update_rpm(c))))

\* ---------------------------------------------------------------- actions
\* Besides the Car the state holds what the properties below refer to:
\*   ticks, refuels : the update() and refuel() calls made so far;
\*   last_call      : the kind of the most recent call: <<"new", fuel>>,
\*                    <<"refuel", amount>>, <<"update", number of the tick>>,
\*                    or <<"set", 0>> for any of the setters;
\*   full_ticks     : how many update() calls in a row, up to now, ran with
\*                    hand_brake = Full and brake_position = 0;
\*   held           : m, the merged braking max(brake_position, handbrake
\*                    effect) the last update() ran with (-1 before the first
\*                    one), and n, how many update() calls in a row, up to
\*                    now, ran with that same m.
Init ==
    /\ \E f \in InitialFuel : car = new(f) /\ last_call = <<"new", f>>
    /\ ticks = 0
    /\ refuels = 0
    /\ full_ticks = 0
    /\ held = [m |-> -1, n |-> 0]

ShiftGear(g) ==
    /\ car' = shift_gear(car, g)
    /\ last_call' = <<"set", 0>>
    /\ UNCHANGED <<ticks, refuels, full_ticks, held>>

SetAcceleratorPosition(p) ==
    /\ car' = set_accelerator_position(car, p)
    /\ last_call' = <<"set", 0>>
    /\ UNCHANGED <<ticks, refuels, full_ticks, held>>

SetBrakePosition(p) ==
    /\ car' = set_brake_position(car, p)
    /\ last_call' = <<"set", 0>>
    /\ UNCHANGED <<ticks, refuels, full_ticks, held>>

SetClutchPosition(p) ==
    /\ car' = set_clutch_position(car, p)
    /\ last_call' = <<"set", 0>>
    /\ UNCHANGED <<ticks, refuels, full_ticks, held>>

SetHandbrakePosition(h) ==
    /\ car' = set_handbrake_position(car, h)
    /\ last_call' = <<"set", 0>>
    /\ UNCHANGED <<ticks, refuels, full_ticks, held>>

TurnKey(b) ==
    /\ car' = turn_key(car, b)
    /\ last_call' = <<"set", 0>>
    /\ UNCHANGED <<ticks, refuels, full_ticks, held>>

Refuel(a) ==
    /\ refuels < MaxRefuels
    /\ car' = refuel(car, a)
    /\ last_call' = <<"refuel", a>>
    /\ refuels' = refuels + 1
    /\ UNCHANGED <<ticks, full_ticks, held>>

Update ==
    /\ car' = update(car)
    /\ last_call' = <<"update", ticks + 1>>
    /\ ticks' = ticks + 1
    /\ full_ticks' = IF car.hand_brake = "Full" /\ car.brake_position = 0
                     THEN full_ticks + 1 ELSE 0
    /\ held' = [m |-> merged_braking(car),
                n |-> IF held.m = merged_braking(car) THEN held.n + 1 ELSE 1]
    /\ UNCHANGED refuels

\* The run is observed until the car has panicked or max_ticks ticks are done.
Running(max_ticks) == ~car.panicked /\ ticks < max_ticks

\* Every operation of the Car.
Next ==
    \/ \E g \in ShiftGears : Running(MaxTicks) /\ ShiftGear(g)
    \/ \E p \in Positions : Running(MaxTicks) /\ SetAcceleratorPosition(p)
    \/ \E p \in Positions : Running(MaxTicks) /\ SetBrakePosition(p)
    \/ \E p \in ClutchEnds : Running(MaxTicks) /\ SetClutchPosition(p)
    \/ \E h \in HandBrake : Running(MaxTicks) /\ SetHandbrakePosition(h)
    \/ \E b \in BOOLEAN : Running(MaxTicks) /\ TurnKey(b)
    \/ \E a \in RefuelAmounts : Running(MaxTicks) /\ Refuel(a)
    \/ Running(MaxTicks) /\ Update

Spec == Init /\ [][Next]_vars

\* A drive on a full tank without refuelling, over more ticks: the driver
\* uses three of the gears and the end positions of the clutch.
InitDrive ==
    /\ car = new(FuelScale) /\ last_call = <<"new", FuelScale>>
    /\ ticks = 0
    /\ refuels = 0
    /\ full_ticks = 0
    /\ held = [m |-> -1, n |-> 0]

NextDrive ==
    \/ \E g \in DriveGears : Running(MaxDriveTicks) /\ ShiftGear(g)
    \/ \E p \in Positions : Running(MaxDriveTicks) /\ SetAcceleratorPosition(p)
    \/ \E p \in Positions : Running(MaxDriveTicks) /\ SetBrakePosition(p)
    \/ \E p \in ClutchEnds : Running(MaxDriveTicks) /\ SetClutchPosition(p)
    \/ \E h \in HandBrake : Running(MaxDriveTicks) /\ SetHandbrakePosition(h)
    \/ \E b \in BOOLEAN : Running(MaxDriveTicks) /\ TurnKey(b)
    \/ Running(MaxDriveTicks) /\ Update

SpecDrive == InitDrive /\ [][NextDrive]_vars

\* The braking model alone, over still more ticks: the driver works the
\* pedals and the handbrake of a parked car (update_braking reads
\* brake_position, hand_brake and the braking window, nothing else).
NextBraking ==
    \/ \E p \in Positions : Running(MaxBrakingTicks) /\ SetAcceleratorPosition(p)
    \/ \E p \in BrakePositions : Running(MaxBrakingTicks) /\ SetBrakePosition(p)
    \/ \E h \in HandBrake : Running(MaxBrakingTicks) /\ SetHandbrakePosition(h)
    \/ Running(MaxBrakingTicks) /\ Update

SpecBraking == InitDrive /\ [][NextBraking]_vars

\* A drive on a full tank at the ends of the speed range, over three ticks.
NextSpeed ==
    \/ \E g \in SpeedGears : Running(MaxSpeedTicks) /\ ShiftGear(g)
    \/ \E p \in PedalEnds : Running(MaxSpeedTicks) /\ SetAcceleratorPosition(p)
    \/ \E p \in PedalEnds : Running(MaxSpeedTicks) /\ SetBrakePosition(p)
    \/ \E p \in ClutchEnds : Running(MaxSpeedTicks) /\ SetClutchPosition(p)
    \/ \E h \in HandBrakeEnds : Running(MaxSpeedTicks) /\ SetHandbrakePosition(h)
    \/ \E b \in BOOLEAN : Running(MaxSpeedTicks) /\ TurnKey(b)
    \/ Running(MaxSpeedTicks) /\ Update

SpecSpeed == InitDrive /\ [][NextSpeed]_vars

\* A steady drive in First on a full tank: the driver turns the key,
\* shifts into First, leaves the clutch engaged and sets the accelerator to
\* 0.5, in any order, and once that is done calls update() tick after tick;
\* the handbrake may be moved at any time.
ScenarioReady ==
    /\ car.ignition
    /\ car.gear = "First"
    /\ car.clutch_position = 0
    /\ car.accelerator_position = PosScale \div 2

NextScenario ==
    \/ Running(MaxScenarioTicks) /\ ticks = 0 /\ TurnKey(TRUE)
    \/ Running(MaxScenarioTicks) /\ ticks = 0 /\ ShiftGear("First")
    \/ Running(MaxScenarioTicks) /\ ticks = 0 /\ SetClutchPosition(0)
    \/ Running(MaxScenarioTicks) /\ ticks = 0 /\ SetAcceleratorPosition(PosScale \div 2)
    \/ \E h \in HandBrake : Running(MaxScenarioTicks) /\ SetHandbrakePosition(h)
    \/ Running(MaxScenarioTicks) /\ ScenarioReady /\ Update

SpecScenario == InitDrive /\ [][NextScenario]_vars

\* ------------------------------------------------------------- properties
\* A step that is one update() call.
IsUpdate == ticks' = ticks + 1
\* A step that is one refuel() call.
IsRefuel == refuels' = refuels + 1

Engaged(c) == 2 * c.clutch_position <= PosScale

\* C1 -- Pedal exclusivity: in no reachable state are the accelerator and the
\* brake both pressed (each pedal's setter releases the other pedal).
C1_PedalExclusivity ==
    ~(car.accelerator_position > 0 /\ car.brake_position > 0)

\* The accelerator has just been set to a pressed position.
C1_Witness ==
    /\ last_call[1] = "set"
    /\ car.accelerator_position > 0
    /\ car.brake_position = 0

\* C2 -- update() is total: no update(), the first one on a fresh Car
\* included, panics on an empty smoothing window or an index out of range.
C2_UpdateTotal == ~car.panicked

\* The first update() of a fresh Car has run both smoothings, each on a
\* window that was empty when the tick began.
C2_Witness ==
    /\ last_call = <<"update", 1>>
    /\ ~car.panicked
    /\ Len(car.instantaneous_speeds) = 2
    /\ Len(car.instantaneous_braking) = 2

\* C3 as stated -- Clean stop for every clutch position and ignition state:
\* an update() with the accelerator at zero and (speed < 3 km/h before the
\* tick, or effective_braking > 0.75 in the tick) leaves the speed at exactly
\* zero.  (Stated for the non-negative speeds the claim is about.)
C3_CleanStopAnyClutchAndIgnition ==
    [][ ( /\ IsUpdate
          /\ car.accelerator_position = 0
          /\ car.speed >= 0
          /\ \/ car.speed < 3 * SpeedScale
             \/ 4 * car'.effective_braking > 3 * PosScale )
        => car'.speed = 0 ]_vars

\* C3 as amended -- Clean stop with the drivetrain engaged (clutch_position
\* <= 0.5) and the ignition on: an update() with the accelerator at zero and
\* (speed < 3 km/h before the tick, or effective_braking > 0.75 as smoothed
\* in the tick) leaves the speed at exactly zero.
C3_CleanStop ==
    [][ ( /\ IsUpdate
          /\ Engaged(car) /\ car.ignition
          /\ car.accelerator_position = 0
          /\ \/ car.speed < 3 * SpeedScale
             \/ 4 * car'.effective_braking > 3 * PosScale )
        => car'.speed = 0 ]_vars

\* The last powered tick published a speed between 0 and 3 km/h (the head of
\* the speed window), and the update() that just ran, engaged, ignition on and
\* the accelerator released, left the speed at zero.
C3_Witness ==
    /\ last_call[1] = "update"
    /\ Engaged(car) /\ car.ignition
    /\ car.accelerator_position = 0
    /\ Len(car.instantaneous_speeds) = 2
    /\ car.instantaneous_speeds[1] > 0
    /\ car.instantaneous_speeds[1] < 3 * SpeedScale
    /\ car.speed = 0

\* C4 -- The published speed is never negative.
C4_SpeedNonNegative == car.speed >= 0

\* C5 -- fuel_level is never negative, in any gear.
C5_FuelNonNegative == car.fuel_level >= 0

\* An update() with the engine running in a gear with a non-zero ratio has
\* burnt the tank's last fuel: the level was clamped at zero.
C5_Witness ==
    /\ last_call[1] = "update"
    /\ car.engine_rpm > 0
    /\ car.gear \in {"First", "Fifth"}
    /\ car.fuel_level = 0

\* C6 -- fuel_level never exceeds a full tank.
C6_FuelAtMostFull == car.fuel_level <= FuelScale

\* C7 -- Monotonic depletion: an update() with the ignition on and the
\* accelerator pressed does not increase fuel_level, in whichever gear.
C7_MonotonicDepletion ==
    [][ (IsUpdate /\ car.ignition /\ car.accelerator_position > 0)
        => car'.fuel_level <= car.fuel_level ]_vars

\* C8 -- Handbrake floor: while hand_brake = Full and brake_position = 0 are
\* held, effective_braking is at least 0.5 after the first update() and is
\* exactly 1.0 after the second and every later one.
C8_HandbrakeFloor ==
    /\ full_ticks >= 1 => 2 * car.effective_braking >= PosScale
    /\ full_ticks >= 2 => car.effective_braking = PosScale

\* Two ticks with the handbrake held at Full, after a tick without it, with
\* the accelerator pressed.
C8_Witness ==
    /\ full_ticks = 2
    /\ ticks >= 3
    /\ last_call[1] = "update"
    /\ car.accelerator_position > 0
    /\ car.effective_braking = PosScale

\* C9 -- Refuel wraps modulo 1: from a fuel_level in [0,1], refuel(amount)
\* leaves (fuel_level + amount) mod 1.0, and refuel(1.2) from 0.0 leaves 0.2.
C9_RefuelWraps ==
    [][ (IsRefuel /\ car.fuel_level >= 0 /\ car.fuel_level <= FuelScale)
        => /\ car'.fuel_level = (car.fuel_level + last_call'[2]) % FuelScale
           /\ (car.fuel_level = 0 /\ last_call'[2] = 12 * (FuelScale \div 10))
                 => car'.fuel_level = 2 * (FuelScale \div 10) ]_vars

\* refuel(1.2) has wrapped the level to 0.2.
C9_Witness ==
    /\ last_call = <<"refuel", 12 * (FuelScale \div 10)>>
    /\ car.fuel_level = 2 * (FuelScale \div 10)

\* rpm() after an update() of the car in its present state, had the
\* accelerator been set to position p before.
RpmAt(p) == update(set_accelerator_position(car, p)).engine_rpm

\* C10 -- RPM law: after an update(), rpm() is 0 if the ignition is off or
\* fuel_level was 0 when the tick began, and otherwise the integer part of
\* 750 + 4250 * accelerator_position; so it is 0 or within [750, 5000], and
\* with the engine running a larger accelerator position gives a larger rpm().
C10_RpmLaw ==
    [][ IsUpdate =>
        /\ car'.engine_rpm =
              IF ~car.ignition \/ car.fuel_level = 0 THEN 0
              ELSE (750 * PosScale + 4250 * car.accelerator_position) \div PosScale
        /\ \/ car'.engine_rpm = 0
           \/ (750 <= car'.engine_rpm /\ car'.engine_rpm <= 5000)
        /\ (car.ignition /\ car.fuel_level > 0)
              => \A p, q \in Positions : p < q => RpmAt(p) < RpmAt(q) ]_vars

\* The engine runs at 1015 rpm, the integer part of 750 + 4250/16.
C10_Witness ==
    /\ last_call[1] = "update"
    /\ car.ignition
    /\ car.accelerator_position = PosScale \div 16
    /\ car.engine_rpm = 1015

\* C11 as stated -- Scenario RPM: every update() of the steady drive in
\* First (fuel left, ignition on, clutch_position 0, accelerator_position
\* 0.5) leaves rpm() at 3625.
C11_ScenarioRpm3625 ==
    [][ (IsUpdate /\ ScenarioReady /\ car.fuel_level > 0)
        => car'.engine_rpm = 3625 ]_vars

\* C11 as amended -- Scenario RPM: every update() of the steady drive in
\* First (fuel left, ignition on, clutch_position 0, accelerator_position
\* 0.5) leaves rpm() at 2875 = 750 + 4250 * 0.5, on each of the 5 ticks.
C11_ScenarioRpm ==
    [][ (IsUpdate /\ ScenarioReady /\ car.fuel_level > 0)
        => car'.engine_rpm = 2875 ]_vars

\* The fifth tick of the steady drive has run and the engine turns at 2875.
C11_Witness ==
    /\ last_call = <<"update", 5>>
    /\ ScenarioReady
    /\ car.fuel_level > 0
    /\ car.engine_rpm = 2875

\* C12 as stated -- Scenario speed: in the steady drive in First with every
\* other input at its constructor default (hand_brake Full since the
\* construction), no update() decreases speed().
C12_ScenarioSpeedDefaults ==
    [][ (IsUpdate /\ ScenarioReady /\ car.hand_brake = "Full" /\ full_ticks = ticks)
        => car'.speed >= car.speed ]_vars

\* The speed the steady drive settles at: 2875 rpm * 0.30 * SPEED_FACTOR,
\* 13.006 km/h.
SteadySpeed == Div(Div(2875 * RpmScale * 30, RatioScale) * SPEED_FACTOR_NUM, SPEED_FACTOR_DEN)

\* C12 as amended -- Scenario speed with the handbrake released: in the
\* steady drive in First with no braking since the construction (hand_brake
\* Disengaged, brake_position 0), the first update() raises speed() strictly,
\* to its steady value, and every later update() leaves it there; no
\* update() decreases it.
C12_ScenarioSpeed ==
    [][ ( /\ IsUpdate /\ ScenarioReady
          /\ merged_braking(car) = 0
          /\ (ticks = 0 \/ (held.m = 0 /\ held.n = ticks)) )
        => /\ car'.speed >= car.speed
           /\ ticks = 0 => car'.speed > car.speed
           /\ car'.speed = SteadySpeed ]_vars

\* Five ticks of the steady drive have run, all with the handbrake released,
\* and the speed is the steady one.
C12_Witness ==
    /\ last_call = <<"update", 5>>
    /\ ScenarioReady
    /\ held = [m |-> 0, n |-> 5]
    /\ car.speed = SteadySpeed
    /\ car.speed > 13 * SpeedScale

\* C13 -- Coasting decay: every update() that runs with clutch_position > 0.5
\* or the ignition off leaves speed = old speed * (0.97 - effective_braking
\* of that tick), whatever the accelerator and the old speed are (the branch
\* comes before the clean stop and the powered branch); from a speed that is
\* not negative, the new speed is not above the old one and is not negative.
C13_CoastingDecay ==
    [][ (IsUpdate /\ (~Engaged(car) \/ ~car.ignition))
        => /\ car'.speed =
                 Div(car.speed * ((97 * PosScale) \div 100 - car'.effective_braking),
                     PosScale)
           /\ car.speed >= 0 => (car'.speed <= car.speed /\ car'.speed >= 0) ]_vars

\* The update() of the car in its present state takes the powered branch of
\* update_speed: drivetrain engaged, ignition on and no clean stop
\* (eff is the effective_braking smoothed in that tick).
Powered(c, eff) ==
    /\ Engaged(c) /\ c.ignition
    /\ ~(c.accelerator_position = 0
           /\ (c.speed < 3 * SpeedScale \/ 4 * eff > 3 * PosScale))

\* C14 as stated -- Window length: after every update() both smoothing
\* windows hold exactly 2 elements.
C14_WindowLengthTwo ==
    last_call[1] = "update"
        => /\ Len(car.instantaneous_speeds) = 2
           /\ Len(car.instantaneous_braking) = 2

\* C14 as amended -- Window length: after an update() the braking window
\* holds exactly 2 elements if the merged braking of the tick was above 0 and
\* exactly 1 (the reset to [0.0]) if it was 0; the speed window holds exactly
\* 2 elements after a tick that took the powered branch and is left as it
\* was by the other two branches (empty until the first powered tick).
C14_WindowLength ==
    [][ IsUpdate
        => /\ Len(car'.instantaneous_braking) =
                 IF merged_braking(car) > 0 THEN 2 ELSE 1
           /\ IF Powered(car, car'.effective_braking)
              THEN Len(car'.instantaneous_speeds) = 2
              ELSE car'.instantaneous_speeds = car.instantaneous_speeds
           /\ Len(car'.instantaneous_speeds) \in {0, 2} ]_vars

\* Two ticks have run, the last one powered and without any braking: two
\* speeds in their window and the single 0.0 in the braking window.
C14_Witness ==
    /\ last_call = <<"update", 2>>
    /\ held.m = 0
    /\ car.speed > 0
    /\ Len(car.instantaneous_speeds) = 2
    /\ car.instantaneous_braking = <<0>>

\* The raw sample of a powered tick: transmission_rpm * SPEED_FACTOR *
\* (1 - effective_braking), from the values of c, the car after the tick.
RawSpeed(c) ==
    Div(Div(c.transmission_rpm * SPEED_FACTOR_NUM, SPEED_FACTOR_DEN)
          * (PosScale - c.effective_braking), PosScale)

\* C15 -- Speed smoothing is a two-sample EMA seeded by its own output: a
\* tick that takes the powered branch with the raw sample s and a speed
\* window whose head is p, the previously smoothed speed, publishes
\* alpha * s + (1 - alpha) * p (to the last digit of the resolution) and
\* leaves the window [new speed, s].
C15_SpeedEma ==
    [][ ( /\ IsUpdate
          /\ Powered(car, car'.effective_braking)
          /\ Len(car.instantaneous_speeds) = 2 )
        => LET s == RawSpeed(car')
               p == car.instantaneous_speeds[1]
               next == Div(SPEED_ALPHA * s + (PosScale - SPEED_ALPHA) * p, PosScale)
           IN  /\ car'.speed - next \in -1..1
               /\ car'.instantaneous_speeds = <<car'.speed, s>> ]_vars

\* alpha * value + (1 - alpha) * last_value, the braking filter's step.
BrakingEma(value, last_value) ==
    Div(BRAKING_ALPHA * value + (PosScale - BRAKING_ALPHA) * last_value, PosScale)

Parked(c) ==
    /\ c.gear = "Neutral"
    /\ c.hand_brake = "Full"
    /\ c.clutch_position = 0
    /\ c.brake_position = 0
    /\ ~c.ignition

\* C17 -- Refuelling while parked accumulates: a round of refuel(0.001)
\* followed by update() on the parked car leaves fuel_level higher than it
\* was before the round.  (Stated for the update() that ends the round; the
\* level before the round is the level before the update() less 0.001,
\* the tank being below a quarter.)
C17_RefuelAccumulates ==
    [][ ( /\ IsUpdate
          /\ last_call = <<"refuel", FuelScale \div 1000>>
          /\ Parked(car)
          /\ car.fuel_level >= FuelScale \div 1000
          /\ car.fuel_level < FuelScale \div 4 )
        => car'.fuel_level > car.fuel_level - FuelScale \div 1000 ]_vars

\* C18 -- effective_braking stays in [0,1]: in every reachable state
\* effective_braking and every element of the braking window are between 0
\* and 1 inclusive.
C18_EffectiveBrakingInUnitInterval ==
    /\ car.effective_braking >= 0 /\ car.effective_braking <= PosScale
    /\ \A i \in 1..Len(car.instantaneous_braking) :
          car.instantaneous_braking[i] >= 0 /\ car.instantaneous_braking[i] <= PosScale

\* Two ticks in a row with the brake pedal to the floor and the handbrake at
\* Full: the braking and its window are at the upper end, 1.0.
C18_Witness ==
    /\ last_call[1] = "update"
    /\ car.brake_position = PosScale
    /\ car.hand_brake = "Full"
    /\ held.m = PosScale /\ held.n >= 2
    /\ car.instantaneous_braking = <<PosScale, PosScale>>

\* MAX_RPM * 1.40 * SPEED_FACTOR, the raw speed at full throttle in Fifth:
\* 105.557 km/h.
SpeedLimit ==
    Div(Div(MAX_RPM * RpmScale * 140, RatioScale) * SPEED_FACTOR_NUM, SPEED_FACTOR_DEN)

Abs(x) == IF x >= 0 THEN x ELSE -x

\* C19 -- Speed never diverges: in every reachable state the magnitude of
\* speed() and of every element of the speed window is at most
\* MAX_RPM * 1.40 * SPEED_FACTOR.
C19_SpeedBounded ==
    /\ Abs(car.speed) <= SpeedLimit
    /\ \A i \in 1..Len(car.instantaneous_speeds) :
          Abs(car.instantaneous_speeds[i]) <= SpeedLimit

\* Three ticks at full throttle in Fifth with nothing braking: the speed and
\* its window are at the limit.
C19_Witness ==
    /\ last_call = <<"update", 3>>
    /\ car.gear = "Fifth"
    /\ car.accelerator_position = PosScale
    /\ held = [m |-> 0, n |-> 3]
    /\ car.speed = SpeedLimit
    /\ car.instantaneous_speeds = <<SpeedLimit, SpeedLimit>>
    /\ SpeedLimit > 105 * SpeedScale

\* C20 as stated -- Effective braking tracks a steady input: once two
\* update() calls in a row have run with the same merged braking b, whichever
\* b in [0,1], effective_braking is b; and after an update() with b = 0
\* effective_braking is 0 and the braking window is [0.0].
C20_TracksAnySteadyInput ==
    /\ held.n >= 2 => car.effective_braking = held.m
    /\ (held.n >= 1 /\ held.m = 0)
          => (car.effective_braking = 0 /\ car.instantaneous_braking = <<0>>)

\* C20 as amended -- Effective braking tracks a steady input above the
\* threshold: once two update() calls in a row have run with the same
\* merged braking b > 0.1, effective_braking is b; and after an update()
\* with b = 0 effective_braking is 0 and the braking window is [0.0].
C20_TracksSteadyInput ==
    /\ (held.n >= 2 /\ 10 * held.m > PosScale) => car.effective_braking = held.m
    /\ (held.n >= 1 /\ held.m = 0)
          => (car.effective_braking = 0 /\ car.instantaneous_braking = <<0>>)

\* After a tick braked at 1.0, two ticks in a row with the brake pedal at
\* 0.5 and the handbrake off: effective_braking has come down to 0.5.
C20_Witness ==
    /\ last_call = <<"update", 3>>
    /\ held = [m |-> PosScale \div 2, n |-> 2]
    /\ car.hand_brake = "Disengaged"
    /\ car.effective_braking = PosScale \div 2
    /\ car.instantaneous_braking = <<PosScale \div 2, PosScale \div 2>>

====
